---- MODULE Spec2Model ----
(***************************************************************************)
(* State-machine model of ExcelHandler (src/src/excel_handler.py) and of   *)
(* the validators it calls (src/src/utils/validators.py).                  *)
(*                                                                         *)
(* Text is a sequence of characters; a character is a one-element string.  *)
(* The two CJK characters the handler uses as join words are written with  *)
(* ASCII names: "YU" is U+4E0E (the AND join word) and "HUO" is U+6216     *)
(* (the OR join word); each stands for ONE character.                      *)
(*                                                                         *)
(* A data frame is a record [isNone, columns, rows]; a row is a record     *)
(* [id, cells] where id is the position the row had in the file it was     *)
(* read from (a ghost field: pandas renumbers the pool's index on every    *)
(* extraction, the model keeps the identity so that rows can be traced).   *)
(***************************************************************************)
EXTENDS Integers, Sequences, FiniteSets, TLC

VARIABLES
    excel_file_path,          \* self.excel_file_path (NoPath = None)
    dataframe,                \* self.dataframe, the pool
    original_dataframe,       \* self.original_dataframe, the snapshot
    filtered_sheets,          \* self.filtered_sheets, insertion-ordered: <<[name, rows]>>
    current_filter_strategy,  \* self.current_filter_strategy
    call,                     \* the call the handler is running, with its arguments
    ret,                      \* what the last finished call returned
    ncalls,                   \* how many calls the handler was given so far
    files,                    \* the workbooks export_final_excel wrote to disk
    main_window,              \* MainWindow: its buttons and its lists
    comparison_dialog,        \* the ComparisonDialog that is open, or NoDialog
    slot                      \* the slot of the windows that waits for the handler

\* the windows
gui == <<main_window, comparison_dialog, slot>>

vars == <<excel_file_path, dataframe, original_dataframe, filtered_sheets,
          current_filter_strategy, call, ret, ncalls, files, gui>>

(***************************************************************************)
(* Bounds of the model.                                                    *)
(***************************************************************************)
\* longest condition list filter_data_batch is given, the two lists around
\* max_filter_conditions apart
MaxConds == 2
\* the number of calls one handler object is given
MaxCalls == 3

(***************************************************************************)
(* Program constants.                                                      *)
(***************************************************************************)
max_filter_conditions == 50
export_sheet_name_max_length == 31
filter_text_max_length == 1000
max_file_size_mb == 100
export_filename_max_length == 200

(***************************************************************************)
(* Characters and text.                                                    *)
(***************************************************************************)
\* the letters and their lower-case and upper-case forms
ToLower == [A |-> "a", B |-> "b", C |-> "c", D |-> "d", E |-> "e", F |-> "f",
            G |-> "g", H |-> "h", I |-> "i", J |-> "j", K |-> "k", L |-> "l",
            M |-> "m", N |-> "n", O |-> "o", P |-> "p", Q |-> "q", R |-> "r",
            S |-> "s", T |-> "t", U |-> "u", V |-> "v", W |-> "w", X |-> "x",
            Y |-> "y", Z |-> "z"]
ToUpper == [a |-> "A", b |-> "B", c |-> "C", d |-> "D", e |-> "E", f |-> "F",
            g |-> "G", h |-> "H", i |-> "I", j |-> "J", k |-> "K", l |-> "L",
            m |-> "M", n |-> "N", o |-> "O", p |-> "P", q |-> "Q", r |-> "R",
            s |-> "S", t |-> "T", u |-> "U", v |-> "V", w |-> "W", x |-> "X",
            y |-> "Y", z |-> "Z"]

\* str.lower() on one character
LowerChar(c) == IF c \in DOMAIN ToLower THEN ToLower[c] ELSE c

\* str.upper() on one character
UpperChar(c) == IF c \in DOMAIN ToUpper THEN ToUpper[c] ELSE c

\* str.upper()
Upper(s) == [i \in 1..Len(s) |-> UpperChar(s[i])]

\* str.lower()
Lower(s) == [i \in 1..Len(s) |-> LowerChar(s[i])]

\* the characters str.strip() removes
Whitespace == {" ", "\t", "\n"}

RECURSIVE LStrip(_)
LStrip(s) ==
    IF s # <<>> /\ Head(s) \in Whitespace THEN LStrip(Tail(s)) ELSE s

RECURSIVE RStrip(_)
RStrip(s) ==
    IF s # <<>> /\ s[Len(s)] \in Whitespace
    THEN RStrip(SubSeq(s, 1, Len(s) - 1))
    ELSE s

\* str.strip()
Strip(s) == RStrip(LStrip(s))

\* `p in s` on strings
Contains(s, p) ==
    \E i \in 0..(Len(s) - Len(p)) : \A j \in 1..Len(p) : s[i + j] = p[j]

\* sep.join(list)
RECURSIVE Join(_, _)
Join(sep, list) ==
    IF list = <<>> THEN <<>>
    ELSE IF Len(list) = 1 THEN list[1]
    ELSE list[1] \o sep \o Join(sep, Tail(list))

\* a plausible slip: the characters are removed, not replaced
ReplaceChars_Drops(s, chars) == SelectSeq(s, LAMBDA c : c \notin chars)

\* s.replace(c, '_') for every c of chars
ReplaceChars(s, chars) == [i \in 1..Len(s) |-> IF s[i] \in chars THEN "_" ELSE s[i]]

\* str.split(sep) for a separator that is not empty
RECURSIVE Split(_, _)
Split(s, sep) ==
    LET starts == {i \in 1..(Len(s) - Len(sep) + 1) : SubSeq(s, i, i + Len(sep) - 1) = sep}
    IN IF starts = {} THEN <<s>>
       ELSE LET i == CHOOSE k \in starts : \A m \in starts : k <= m
            IN <<SubSeq(s, 1, i - 1)>> \o Split(SubSeq(s, i + Len(sep), Len(s)), sep)

\* a text of n copies of c
Repeat(c, n) == [i \in 1..n |-> c]

(***************************************************************************)
(* Data frames.                                                            *)
(***************************************************************************)
\* a cell that holds text, and the cell pandas reads from an empty
\* spreadsheet cell
Cell(s) == [na |-> FALSE, s |-> s]
NaN == [na |-> TRUE, s |-> <<>>]

\* Series.astype(str) on one cell: the missing value becomes the text nan
AsStr(cell) == IF cell.na THEN <<"n","a","n">> ELSE cell.s

NoneDF == [isNone |-> TRUE, columns |-> <<>>, rows |-> <<>>]
DataFrame(columns, rows) == [isNone |-> FALSE, columns |-> columns, rows |-> rows]

Range(seq) == {seq[i] : i \in 1..Len(seq)}

\* df[mask]: the rows whose mask entry is true, in order
RECURSIVE SelectRows(_, _, _)
SelectRows(rows, mask, keep) ==
    IF rows = <<>> THEN <<>>
    ELSE (IF Head(mask) = keep THEN <<Head(rows)>> ELSE <<>>)
         \o SelectRows(Tail(rows), Tail(mask), keep)

\* self.dataframe[mask].copy()
Masked(df, mask) == DataFrame(df.columns, SelectRows(df.rows, mask, TRUE))
\* a plausible slip: the mask is not negated
Unmasked_NotNegated(df, mask) == DataFrame(df.columns, SelectRows(df.rows, mask, TRUE))

\* self.dataframe[~mask].reset_index(drop=True)
Unmasked(df, mask) == DataFrame(df.columns, SelectRows(df.rows, mask, FALSE))

(***************************************************************************)
(* The filter strategies.                                                  *)
(***************************************************************************)
\* Series.str.contains(condition, na=False, case=False, regex=False) on the
\* text of one cell
StrContains(text, condition) == Contains(Lower(text), Lower(condition))

\* the characters re treats as operators; the model gives patterns made of
\* literals, the wildcard "." and parentheses
RECURSIVE ParenDepthOk(_, _)
ParenDepthOk(p, depth) ==
    IF p = <<>> THEN depth = 0
    ELSE IF Head(p) = "(" THEN ParenDepthOk(Tail(p), depth + 1)
    ELSE IF Head(p) = ")" THEN depth > 0 /\ ParenDepthOk(Tail(p), depth - 1)
    ELSE ParenDepthOk(Tail(p), depth)

\* re.compile(condition) does not raise
RegexCompiles(p) == ParenDepthOk(p, 0)

RECURSIVE DropParens(_)
DropParens(p) ==
    IF p = <<>> THEN <<>>
    ELSE (IF Head(p) \in {"(", ")"} THEN <<>> ELSE <<Head(p)>>) \o DropParens(Tail(p))

\* regex.search(text) with re.IGNORECASE, for a pattern that compiles
RegexSearch(text, p) ==
    LET q == Lower(DropParens(p))
        t == Lower(text)
    IN \E i \in 0..(Len(t) - Len(q)) :
          \A j \in 1..Len(q) : (q[j] = "." /\ t[i + j] # "\n") \/ q[j] = t[i + j]

\* ContainsFilter.apply_filter
ContainsFilter(df, columns, condition) ==
    [i \in 1..Len(df.rows) |->
        \E k \in 1..Len(columns) :
            /\ columns[k] \in Range(df.columns)
            /\ StrContains(AsStr(df.rows[i].cells[columns[k]]), condition)]

\* a plausible slip: the condition is compared as it was typed, the cell
\* trimmed and lower-cased
ExactMatchFilter_RawCondition(df, columns, condition) ==
    [i \in 1..Len(df.rows) |->
        \E k \in 1..Len(columns) :
            /\ columns[k] \in Range(df.columns)
            /\ Lower(Strip(AsStr(df.rows[i].cells[columns[k]]))) = condition]

\* ExactMatchFilter.apply_filter
ExactMatchFilter(df, columns, condition) ==
    [i \in 1..Len(df.rows) |->
        \E k \in 1..Len(columns) :
            /\ columns[k] \in Range(df.columns)
            /\ Lower(Strip(AsStr(df.rows[i].cells[columns[k]]))) = Lower(Strip(condition))]

\* RegexFilter.apply_filter with an except branch that only passes: a pattern
\* that does not compile selects nothing
RegexFilter_NoFallback(df, columns, condition) ==
    [i \in 1..Len(df.rows) |->
        \E k \in 1..Len(columns) :
            /\ columns[k] \in Range(df.columns)
            /\ RegexCompiles(condition)
            /\ RegexSearch(AsStr(df.rows[i].cells[columns[k]]), condition)]

\* RegexFilter.apply_filter: a pattern that does not compile raises inside
\* the try and the except branch matches it as plain text
RegexFilter(df, columns, condition) ==
    [i \in 1..Len(df.rows) |->
        \E k \in 1..Len(columns) :
            /\ columns[k] \in Range(df.columns)
            /\ IF RegexCompiles(condition)
               THEN RegexSearch(AsStr(df.rows[i].cells[columns[k]]), condition)
               ELSE StrContains(AsStr(df.rows[i].cells[columns[k]]), condition)]

\* the keys of self.filter_strategies
StrategyNames == {"contains", "exact", "regex"}

\* self.filter_strategies[name].apply_filter(df, columns, condition)
ApplyFilter(name, df, columns, condition) ==
    CASE name = "contains" -> ContainsFilter(df, columns, condition)
      [] name = "exact"    -> ExactMatchFilter(df, columns, condition)
      [] name = "regex"    -> RegexFilter(df, columns, condition)

(***************************************************************************)
(* DataValidator.                                                          *)
(***************************************************************************)
\* a plausible slip: only the empty selection is refused
validate_column_selection_OnlyEmpty(columns, available_columns) ==
    IF columns = <<>> THEN "no_columns" ELSE ""

\* validate_column_selection: "" when valid, else the kind of error
validate_column_selection(columns, available_columns) ==
    IF columns = <<>> THEN "no_columns"
    ELSE IF \E k \in 1..Len(columns) : columns[k] \notin Range(available_columns)
    THEN "unknown_columns"
    ELSE ""

\* validate_filter_text: "" when valid, else the kind of error
validate_filter_text(filter_text) ==
    IF filter_text = <<>> \/ Strip(filter_text) = <<>> THEN "empty_text"
    ELSE IF Len(filter_text) > filter_text_max_length THEN "text_too_long"
    ELSE ""

SheetInvalidChars == {"/", "\\", "?", "*", "[", "]", ":"}

\* a plausible slip: the marker is added after max_length characters
sanitize_sheet_name_CutsAtMax(name) ==
    IF name = <<>> THEN <<"S","h","e","e","t","1">>
    ELSE LET sanitized == ReplaceChars(name, SheetInvalidChars)
             cut == IF Len(sanitized) > export_sheet_name_max_length
                    THEN SubSeq(sanitized, 1, export_sheet_name_max_length)
                         \o <<".", ".", ".">>
                    ELSE sanitized
         IN Strip(cut)

\* sanitize_sheet_name
sanitize_sheet_name(name) ==
    IF name = <<>> THEN <<"S","h","e","e","t","1">>
    ELSE LET sanitized == ReplaceChars(name, SheetInvalidChars)
             cut == IF Len(sanitized) > export_sheet_name_max_length
                    THEN SubSeq(sanitized, 1, export_sheet_name_max_length - 3)
                         \o <<".", ".", ".">>
                    ELSE sanitized
         IN Strip(cut)

FilenameInvalidChars == {"/", "\\", ":", "*", "?", "\"", "<", ">", "|"}

\* sanitize_filename
sanitize_filename(name) ==
    IF name = <<>> THEN <<"e","x","p","o","r","t">>
    ELSE LET sanitized == ReplaceChars(name, FilenameInvalidChars)
             cut == IF Len(sanitized) > export_filename_max_length
                    THEN SubSeq(sanitized, 1, export_filename_max_length - 3)
                         \o <<".", ".", ".">>
                    ELSE sanitized
         IN Strip(cut)

\* validate_excel_data: "" when valid, else the kind of error
validate_excel_data(df) ==
    IF df.isNone THEN "data_none"
    ELSE IF df.rows = <<>> \/ df.columns = <<>> THEN "data_empty"
    ELSE IF \E k \in 1..Len(df.columns) : df.columns[k] \in {"", " "}
    THEN "bad_column_names"
    ELSE ""

(***************************************************************************)
(* The files the handler is pointed at.                                    *)
(***************************************************************************)
Row(id, department, city) ==
    [id |-> id, cells |-> [Department |-> department, City |-> city]]

\* the table of tests/test_excel_handler.py, its two text columns that the
\* tests filter on
TableA ==
    DataFrame(<<"Department", "City">>,
      << Row(0, Cell(<<"I","T">>), Cell(<<"N","e","w"," ","Y","o","r","k">>)),
         Row(1, Cell(<<"H","R">>), Cell(<<"L","o","n","d","o","n">>)),
         Row(2, Cell(<<"I","T">>), Cell(<<"P","a","r","i","s">>)),
         Row(3, Cell(<<"F","i","n","a","n","c","e">>), Cell(<<"T","o","k","y","o">>)),
         Row(4, Cell(<<"I","T">>), Cell(<<"S","y","d","n","e","y">>)) >>)

\* a workbook whose first sheet is empty
EmptyTable == DataFrame(<<>>, <<>>)

NoFile == [exists |-> FALSE, is_file |-> FALSE, size_mb |-> 0, suffix |-> "",
           parses |-> FALSE, table |-> NoneDF]
ExcelFile(size_mb, parses, table) ==
    [exists |-> TRUE, is_file |-> TRUE, size_mb |-> size_mb, suffix |-> ".xlsx",
     parses |-> parses, table |-> table]

NoPath == "<None>"
Paths == {"", "missing.xlsx", "a.xlsx", "empty.xlsx", "corrupt.xlsx"}

FileAt(path) ==
    CASE path = "a.xlsx"       -> ExcelFile(1, TRUE, TableA)
      [] path = "empty.xlsx"   -> ExcelFile(1, TRUE, EmptyTable)
      [] path = "corrupt.xlsx" -> ExcelFile(1, FALSE, NoneDF)
      [] OTHER                 -> NoFile

\* validate_file_path: "" when valid, else the kind of error
validate_file_path(file_path) ==
    IF file_path = "" THEN "path_empty"
    ELSE IF ~FileAt(file_path).exists THEN "file_missing"
    ELSE IF ~FileAt(file_path).is_file THEN "not_a_file"
    ELSE IF FileAt(file_path).size_mb > max_file_size_mb THEN "file_too_large"
    ELSE IF FileAt(file_path).suffix \notin {".xlsx", ".xls", ".xlsm"} THEN "bad_extension"
    ELSE ""

\* optimize_dataframe_memory: narrows the dtypes of the columns; the values,
\* the columns and the order of the rows stay
optimize_dataframe_memory(df) == DataFrame(df.columns, df.rows)

(***************************************************************************)
(* ExcelHandler: state, calls and returns.                                 *)
(***************************************************************************)
\* Python's None for a strategy argument
NoStrategy == "<None>"

\* Python's None for the sheet_name argument of clear_filtered_data
NoSheet == <<"<None>">>

NoCall == [op |-> "", path |-> "", columns |-> <<>>, text |-> <<>>,
           values |-> <<>>, strategy |-> "", logic |-> <<>>, sheet_name |-> <<>>,
           save_directory |-> "", filename |-> <<>>, df |-> NoneDF]

\* what a call returned: ok and msg are the (success, message) pair, name and
\* rows the partition an extraction made, mask the mask of an apply_filter,
\* and raised tells that the call ended with an exception instead
Returned(op, ok, msg, name, rows) ==
    [op |-> op, ok |-> ok, msg |-> msg, name |-> name, rows |-> rows,
     mask |-> <<>>, raised |-> FALSE]
NoRet == Returned("", FALSE, "", <<>>, <<>>)

\* MainWindow.__init__: the three buttons are made disabled and
\* _update_ui_state finds no data
NewMainWindow ==
    [compare_button |-> FALSE, reset_button |-> FALSE, export_button |-> FALSE,
     columns_list |-> <<>>, filtered_list |-> <<>>]

\* no ComparisonDialog is open
NoDialog ==
    [open |-> FALSE, selected_columns |-> <<>>, strategy |-> "",
     continue_button |-> FALSE, finish_button |-> FALSE]

\* ExcelHandler.__init__, and MainWindow.__init__ around it
Init ==
    /\ excel_file_path = NoPath
    /\ dataframe = NoneDF
    /\ original_dataframe = NoneDF
    /\ filtered_sheets = <<>>
    /\ current_filter_strategy = "contains"
    /\ call = NoCall
    /\ ret = NoRet
    /\ ncalls = 0
    /\ files = {}
    /\ main_window = NewMainWindow
    /\ comparison_dialog = NoDialog
    /\ slot = ""

\* `name in self.filtered_sheets`
HasSheet(sheets, name) == \E i \in 1..Len(sheets) : sheets[i].name = name

\* self.filtered_sheets[name] = df on an insertion-ordered dict: a key that
\* is present keeps its place and gets the new value, a new key goes last
PutSheet(sheets, name, df) ==
    IF HasSheet(sheets, name)
    THEN [i \in 1..Len(sheets) |->
            IF sheets[i].name = name THEN [name |-> name, df |-> df] ELSE sheets[i]]
    ELSE Append(sheets, [name |-> name, df |-> df])

\* ExcelHandler.get_column_names
get_column_names == IF dataframe.isNone THEN <<>> ELSE dataframe.columns

RECURSIVE SumRows(_)
SumRows(sheets) ==
    IF sheets = <<>> THEN 0 ELSE Len(Head(sheets).df.rows) + SumRows(Tail(sheets))

\* ExcelHandler.get_data_summary
get_data_summary ==
    [original_rows |-> IF original_dataframe.isNone THEN 0 ELSE Len(original_dataframe.rows),
     current_rows |-> IF dataframe.isNone THEN 0 ELSE Len(dataframe.rows),
     filtered_sheets_count |-> Len(filtered_sheets),
     total_filtered_rows |-> SumRows(filtered_sheets),
     columns |-> get_column_names,
     file_path |-> excel_file_path]

\* ExcelHandler.get_all_filtered_sheets
get_all_filtered_sheets == [i \in 1..Len(filtered_sheets) |-> filtered_sheets[i].name]

\* the handler returns: the call is over
Return(r) == call' = NoCall /\ ret' = r /\ UNCHANGED <<ncalls, files, gui>>

\* ExcelHandler.load_excel
load_excel ==
    /\ call.op = "load_excel"
    /\ LET file_path == call.path
           file == FileAt(file_path)
           read == file.table
       IN IF validate_file_path(file_path) # ""
          THEN /\ Return(Returned("load_excel", FALSE, validate_file_path(file_path), <<>>, <<>>))
               /\ UNCHANGED <<excel_file_path, dataframe, original_dataframe>>
          ELSE /\ excel_file_path' = file_path
               /\ IF ~file.parses
                  THEN \* pd.read_excel raises, the except branch returns
                       /\ Return(Returned("load_excel", FALSE, "load_failed", <<>>, <<>>))
                       /\ UNCHANGED <<dataframe, original_dataframe>>
                  ELSE IF validate_excel_data(read) # ""
                  THEN /\ dataframe' = read
                       /\ Return(Returned("load_excel", FALSE, validate_excel_data(read), <<>>, <<>>))
                       /\ UNCHANGED original_dataframe
                  ELSE /\ dataframe' = optimize_dataframe_memory(read)
                       /\ original_dataframe' = optimize_dataframe_memory(read)
                       /\ Return(Returned("load_excel", TRUE, "", <<>>, <<>>))
    /\ UNCHANGED <<filtered_sheets, current_filter_strategy>>

\* a plausible slip: the name is stored without being looked up
set_filter_strategy_AcceptsAny ==
    /\ call.op = "set_filter_strategy"
    /\ current_filter_strategy' = call.strategy
    /\ Return(Returned("set_filter_strategy", TRUE, "", <<>>, <<>>))
    /\ UNCHANGED <<excel_file_path, dataframe, original_dataframe, filtered_sheets>>

\* ExcelHandler.set_filter_strategy
set_filter_strategy ==
    /\ call.op = "set_filter_strategy"
    /\ IF call.strategy \in StrategyNames
       THEN /\ current_filter_strategy' = call.strategy
            /\ Return(Returned("set_filter_strategy", TRUE, "", <<>>, <<>>))
       ELSE /\ Return(Returned("set_filter_strategy", FALSE, "unknown_strategy", <<>>, <<>>))
            /\ UNCHANGED current_filter_strategy
    /\ UNCHANGED <<excel_file_path, dataframe, original_dataframe, filtered_sheets>>

\* a plausible slip: the selection is stored and taken out of the pool
\* before it is tested for being empty
Extract_StoresFirst(op, mask, condition_name) ==
    LET filtered_data == Masked(dataframe, mask)
        sheet_name == sanitize_sheet_name(condition_name)
    IN /\ filtered_sheets' = PutSheet(filtered_sheets, sheet_name, filtered_data)
       /\ dataframe' = Unmasked(dataframe, mask)
       /\ IF filtered_data.rows = <<>>
          THEN Return(Returned(op, FALSE, "no_match", <<>>, <<>>))
          ELSE Return(Returned(op, TRUE, "", sheet_name, filtered_data.rows))

\* a plausible slip: the partition is stored under the name as it was built
Extract_KeepsRawName(op, mask, condition_name) ==
    LET filtered_data == Masked(dataframe, mask)
    IN IF filtered_data.rows = <<>>
       THEN /\ Return(Returned(op, FALSE, "no_match", <<>>, <<>>))
            /\ UNCHANGED <<dataframe, filtered_sheets>>
       ELSE /\ filtered_sheets' = PutSheet(filtered_sheets, condition_name, filtered_data)
            /\ dataframe' = Unmasked(dataframe, mask)
            /\ Return(Returned(op, TRUE, "", condition_name, filtered_data.rows))

\* a plausible slip: the selection is stored and the pool keeps it
Extract_KeepsPool(op, mask, condition_name) ==
    LET filtered_data == Masked(dataframe, mask)
        sheet_name == sanitize_sheet_name(condition_name)
    IN IF filtered_data.rows = <<>>
       THEN /\ Return(Returned(op, FALSE, "no_match", <<>>, <<>>))
            /\ UNCHANGED <<dataframe, filtered_sheets>>
       ELSE /\ filtered_sheets' = PutSheet(filtered_sheets, sheet_name, filtered_data)
            /\ UNCHANGED dataframe
            /\ Return(Returned(op, TRUE, "", sheet_name, filtered_data.rows))

\* the part of filter_data and filter_data_batch after the mask is built:
\* an empty selection returns, anything else is stored and leaves the pool
Extract(op, mask, condition_name) ==
    LET filtered_data == Masked(dataframe, mask)
        sheet_name == sanitize_sheet_name(condition_name)
    IN IF filtered_data.rows = <<>>
       THEN /\ Return(Returned(op, FALSE, "no_match", <<>>, <<>>))
            /\ UNCHANGED <<dataframe, filtered_sheets>>
       ELSE /\ filtered_sheets' = PutSheet(filtered_sheets, sheet_name, filtered_data)
            /\ dataframe' = Unmasked(dataframe, mask)
            /\ Return(Returned(op, TRUE, "", sheet_name, filtered_data.rows))

\* ExcelHandler.filter_data
filter_data ==
    /\ call.op = "filter_data"
    /\ LET selected_columns == call.columns
           filter_value == call.text
           strategy == call.strategy
           chosen == IF strategy \in {NoStrategy, ""}
                     THEN current_filter_strategy ELSE strategy
           filter_strategy == IF chosen \notin StrategyNames THEN "contains" ELSE chosen
       IN IF dataframe.isNone
          THEN /\ Return(Returned("filter_data", FALSE, "no_data", <<>>, <<>>))
               /\ UNCHANGED <<dataframe, filtered_sheets>>
          ELSE IF validate_column_selection(selected_columns, get_column_names) # ""
          THEN /\ Return(Returned("filter_data", FALSE,
                           validate_column_selection(selected_columns, get_column_names),
                           <<>>, <<>>))
               /\ UNCHANGED <<dataframe, filtered_sheets>>
          ELSE IF validate_filter_text(filter_value) # ""
          THEN /\ Return(Returned("filter_data", FALSE, validate_filter_text(filter_value),
                           <<>>, <<>>))
               /\ UNCHANGED <<dataframe, filtered_sheets>>
          ELSE Extract("filter_data",
                       ApplyFilter(filter_strategy, dataframe, selected_columns, filter_value),
                       filter_value)
    /\ UNCHANGED <<excel_file_path, original_dataframe, current_filter_strategy>>

\* the two join words of filter_data_batch
AndWord == <<" ", "YU", " ">>
OrWord == <<" ", "HUO", " ">>

\* a plausible slip: the loop assigns the condition's mask instead of
\* combining it, so only the last condition counts
OrMasks_LastOnly(df, columns, values) ==
    IF values = <<>> THEN [i \in 1..Len(df.rows) |-> FALSE]
    ELSE ApplyFilter(current_filter_strategy, df, columns, values[Len(values)])

\* final_mask |= current_mask over the conditions, from all False
RECURSIVE OrMasks(_, _, _)
OrMasks(df, columns, values) ==
    IF values = <<>> THEN [i \in 1..Len(df.rows) |-> FALSE]
    ELSE LET rest == OrMasks(df, columns, SubSeq(values, 1, Len(values) - 1))
             current_mask == ApplyFilter(current_filter_strategy, df, columns,
                                         values[Len(values)])
         IN [i \in 1..Len(df.rows) |-> rest[i] \/ current_mask[i]]

\* a plausible slip: the AND branch combines with |= from all False
AndMasks_Unions(df, columns, values) == OrMasks(df, columns, values)

\* final_mask &= current_mask over the conditions, from all True
RECURSIVE AndMasks(_, _, _)
AndMasks(df, columns, values) ==
    IF values = <<>> THEN [i \in 1..Len(df.rows) |-> TRUE]
    ELSE LET rest == AndMasks(df, columns, SubSeq(values, 1, Len(values) - 1))
             current_mask == ApplyFilter(current_filter_strategy, df, columns,
                                         values[Len(values)])
         IN [i \in 1..Len(df.rows) |-> rest[i] /\ current_mask[i]]

\* a plausible slip: the limit is tested with >=
TooManyConditions_AtLimit(filter_values) == Len(filter_values) >= max_filter_conditions

\* len(filter_values) > max_conditions
TooManyConditions(filter_values) == Len(filter_values) > max_filter_conditions

\* ExcelHandler.filter_data_batch
filter_data_batch ==
    /\ call.op = "filter_data_batch"
    /\ LET selected_columns == call.columns
           filter_values == call.values
           logic_operator == call.logic
       IN IF dataframe.isNone
          THEN /\ Return(Returned("filter_data_batch", FALSE, "no_data", <<>>, <<>>))
               /\ UNCHANGED <<dataframe, filtered_sheets>>
          ELSE IF validate_column_selection(selected_columns, get_column_names) # ""
          THEN /\ Return(Returned("filter_data_batch", FALSE,
                           validate_column_selection(selected_columns, get_column_names),
                           <<>>, <<>>))
               /\ UNCHANGED <<dataframe, filtered_sheets>>
          ELSE IF filter_values = <<>>
          THEN /\ Return(Returned("filter_data_batch", FALSE, "no_conditions", <<>>, <<>>))
               /\ UNCHANGED <<dataframe, filtered_sheets>>
          ELSE IF TooManyConditions(filter_values)
          THEN /\ Return(Returned("filter_data_batch", FALSE, "too_many_conditions",
                           <<>>, <<>>))
               /\ UNCHANGED <<dataframe, filtered_sheets>>
          ELSE IF Upper(logic_operator) = <<"A","N","D">>
          THEN Extract("filter_data_batch",
                       AndMasks(dataframe, selected_columns, filter_values),
                       Join(AndWord, filter_values))
          ELSE Extract("filter_data_batch",
                       OrMasks(dataframe, selected_columns, filter_values),
                       Join(OrWord, filter_values))
    /\ UNCHANGED <<excel_file_path, original_dataframe, current_filter_strategy>>

\* a plausible slip: the mapping is not cleared
reset_data_KeepsSheets ==
    /\ call.op = "reset_data"
    /\ IF ~original_dataframe.isNone
       THEN /\ dataframe' = original_dataframe
            /\ Return(Returned("reset_data", TRUE, "", <<>>, <<>>))
       ELSE /\ Return(Returned("reset_data", FALSE, "no_original", <<>>, <<>>))
            /\ UNCHANGED dataframe
    /\ UNCHANGED <<excel_file_path, original_dataframe, current_filter_strategy,
                   filtered_sheets>>

\* a plausible slip: the branch without a snapshot reports success too
reset_data_AlwaysTrue ==
    /\ call.op = "reset_data"
    /\ IF ~original_dataframe.isNone
       THEN /\ dataframe' = original_dataframe
            /\ filtered_sheets' = <<>>
            /\ Return(Returned("reset_data", TRUE, "", <<>>, <<>>))
       ELSE /\ Return(Returned("reset_data", TRUE, "", <<>>, <<>>))
            /\ UNCHANGED <<dataframe, filtered_sheets>>
    /\ UNCHANGED <<excel_file_path, original_dataframe, current_filter_strategy>>

\* ExcelHandler.reset_data
reset_data ==
    /\ call.op = "reset_data"
    /\ IF ~original_dataframe.isNone
       THEN /\ dataframe' = original_dataframe
            /\ filtered_sheets' = <<>>
            /\ Return(Returned("reset_data", TRUE, "", <<>>, <<>>))
       ELSE /\ Return(Returned("reset_data", FALSE, "no_original", <<>>, <<>>))
            /\ UNCHANGED <<dataframe, filtered_sheets>>
    /\ UNCHANGED <<excel_file_path, original_dataframe, current_filter_strategy>>

\* the mapping without the key sheet_name
RECURSIVE DelSheet(_, _)
DelSheet(sheets, name) ==
    IF sheets = <<>> THEN <<>>
    ELSE (IF Head(sheets).name = name THEN <<>> ELSE <<Head(sheets)>>)
         \o DelSheet(Tail(sheets), name)

\* ExcelHandler.clear_filtered_data
clear_filtered_data ==
    /\ call.op = "clear_filtered_data"
    /\ IF call.sheet_name = NoSheet
       THEN /\ filtered_sheets' = <<>>
            /\ Return(Returned("clear_filtered_data", TRUE, "", <<>>, <<>>))
       ELSE IF HasSheet(filtered_sheets, call.sheet_name)
       THEN /\ filtered_sheets' = DelSheet(filtered_sheets, call.sheet_name)
            /\ Return(Returned("clear_filtered_data", TRUE, "", <<>>, <<>>))
       ELSE /\ Return(Returned("clear_filtered_data", FALSE, "no_such_sheet", <<>>, <<>>))
            /\ UNCHANGED filtered_sheets
    /\ UNCHANGED <<excel_file_path, dataframe, original_dataframe, current_filter_strategy>>

(***************************************************************************)
(* ExcelHandler: the export.                                               *)
(***************************************************************************)
\* Python's None for the save_directory and the filename arguments
NoDirectory == "<None>"
NoFilename == <<"<None>">>

\* the directories of the disk: the directory of the imported file is "",
\* "out" can be written to, "ro" cannot; any other name is no directory
ExistingDirectories == {"", "out", "ro"}
WritableDirectories == {"", "out"}

\* what the disk does with the write: nothing special, the target file is
\* open in another program, the save is refused, the save fails otherwise
DiskStates == {"ok", "locked", "denied", "failing"}

\* datetime.now().strftime("%Y%m%d_%H%M%S"): fifteen characters
Timestamps == {<<"2","0","2","6","0","1","0","1","_","1","2","0","0","0","0">>}

XlsxSuffix == <<".", "x", "l", "s", "x">>

\* filename.endswith(suffix)
EndsWith(s, suffix) ==
    Len(s) >= Len(suffix) /\ SubSeq(s, Len(s) - Len(suffix) + 1, Len(s)) = suffix

\* list(dict.fromkeys(list)): the first occurrence of each element, in order
RECURSIVE Unique(_)
Unique(list) ==
    IF list = <<>> THEN <<>>
    ELSE LET before == Unique(SubSeq(list, 1, Len(list) - 1))
             last == list[Len(list)]
         IN IF last \in Range(before) THEN before ELSE Append(before, last)

\* one pass of the separator loop: every condition that holds sep is split
RECURSIVE SplitEach(_, _)
SplitEach(conditions, sep) ==
    IF conditions = <<>> THEN <<>>
    ELSE Split(Head(conditions), sep) \o SplitEach(Tail(conditions), sep)

\* the separators, in the order the loop takes them; "YU" and "HUO" are the
\* two join words
Separators == << <<" ", "YU", " ">>, <<" ", "HUO", " ">>,
                 <<" ", "A", "N", "D", " ">>, <<" ", "O", "R", " ">> >>

\* the conditions one partition name is split into
RECURSIVE SplitBySeparators(_, _)
SplitBySeparators(conditions, seps) ==
    IF seps = <<>> THEN conditions
    ELSE SplitBySeparators(SplitEach(conditions, Head(seps)), Tail(seps))

\* all_conditions: the conditions of every partition name, in the order of
\* the mapping
RECURSIVE AllConditions(_)
AllConditions(names) ==
    IF names = <<>> THEN <<>>
    ELSE SplitBySeparators(<<Head(names)>>, Separators) \o AllConditions(Tail(names))

\* the number of conditions the generated name shows
max_conditions == 3

\* conditions_str before it is sanitized; "DENG" is U+7B49, the marker that
\* stands for "and more"
ConditionsStr(names) ==
    LET unique_conditions == Unique(AllConditions(names))
    IN IF Len(unique_conditions) > max_conditions
       THEN Join(<<"+">>, SubSeq(unique_conditions, 1, max_conditions)) \o <<"DENG">>
       ELSE Join(<<"+">>, unique_conditions)

\* ExcelHandler._generate_export_filename
_generate_export_filename(timestamp) ==
    LET conditions_str == sanitize_filename(ConditionsStr(get_all_filtered_sheets))
        max_length == export_filename_max_length - Len(timestamp) - 7
        capped == IF Len(conditions_str) > max_length
                  THEN SubSeq(conditions_str, 1, max_length - 3) \o <<".", ".", ".">>
                  ELSE conditions_str
    IN capped \o <<"_">> \o timestamp \o XlsxSuffix

\* DataValidator.validate_export_path: "" when valid, else the kind of error
validate_export_path(directory, filename, disk) ==
    IF directory = "" /\ filename = <<>> THEN "empty_path"
    ELSE IF directory \notin ExistingDirectories THEN "export_dir_missing"
    ELSE IF directory \notin WritableDirectories THEN "not_writable"
    ELSE IF disk = "locked" THEN "file_locked"
    ELSE ""

\* a plausible slip: the sheets are written last partition first
CreateSheets_Reversed(sheets) ==
    [i \in 1..Len(sheets) |->
        [title |-> sanitize_sheet_name(sheets[Len(sheets) + 1 - i].name),
         header |-> sheets[Len(sheets) + 1 - i].df.columns,
         rows |-> sheets[Len(sheets) + 1 - i].df.rows]]

\* Workbook.create_sheet(title) for every partition, in the order of the
\* mapping: the library gives a title that is already taken (letter case
\* ignored) a number at its end
RECURSIVE CreateSheets(_)
CreateSheets(sheets) ==
    IF sheets = <<>> THEN <<>>
    ELSE LET before == CreateSheets(SubSeq(sheets, 1, Len(sheets) - 1))
             sheet == sheets[Len(sheets)]
             safe_sheet_name == sanitize_sheet_name(sheet.name)
             taken == \E i \in 1..Len(before) : Lower(before[i].title) = Lower(safe_sheet_name)
         IN Append(before,
                   [title |-> IF taken THEN safe_sheet_name \o <<"1">> ELSE safe_sheet_name,
                    header |-> sheet.df.columns,
                    rows |-> sheet.df.rows])

\* a plausible slip: the pool is tested, not the mapping
NothingToExport_WhenNoPool == dataframe.isNone

\* `not self.filtered_sheets`
NothingToExport == filtered_sheets = <<>>

\* a plausible slip: an export that wrote its file empties the mapping, and
\* a write error escapes the handler
export_final_excel_ClearsSheets ==
    /\ call.op = "export_final_excel"
    /\ IF NothingToExport
       THEN /\ Return(Returned("export_final_excel", FALSE, "nothing_to_export", <<>>, <<>>))
            /\ UNCHANGED filtered_sheets
       ELSE IF excel_file_path = NoPath
       THEN /\ Return(Returned("export_final_excel", FALSE, "no_source_file", <<>>, <<>>))
            /\ UNCHANGED filtered_sheets
       ELSE \E disk \in DiskStates :
            IF disk = "ok"
            THEN /\ filtered_sheets' = <<>>
                 /\ Return(Returned("export_final_excel", TRUE, "", call.filename, <<>>))
            ELSE /\ Return([Returned("export_final_excel", FALSE, "export_error", <<>>, <<>>)
                              EXCEPT !.raised = TRUE])
                 /\ UNCHANGED filtered_sheets
    /\ UNCHANGED <<excel_file_path, dataframe, original_dataframe, current_filter_strategy>>

\* ExcelHandler.export_final_excel
export_final_excel ==
    /\ call.op = "export_final_excel"
    /\ IF NothingToExport
       THEN /\ Return(Returned("export_final_excel", FALSE, "nothing_to_export", <<>>, <<>>))
       ELSE IF excel_file_path = NoPath
       THEN /\ Return(Returned("export_final_excel", FALSE, "no_source_file", <<>>, <<>>))
       ELSE \E timestamp \in Timestamps, disk \in DiskStates :
            LET sanitized == sanitize_filename(call.filename)
                filename == IF call.filename = NoFilename
                            THEN _generate_export_filename(timestamp)
                            ELSE IF EndsWith(sanitized, XlsxSuffix) THEN sanitized
                            ELSE sanitized \o XlsxSuffix
                directory == IF /\ call.save_directory \notin {NoDirectory, ""}
                                /\ call.save_directory \in ExistingDirectories
                             THEN call.save_directory
                             ELSE ""
                error_msg == validate_export_path(directory, filename, disk)
                workbook == [directory |-> directory, filename |-> filename,
                             sheets |-> CreateSheets(filtered_sheets)]
            IN IF error_msg # ""
               THEN /\ call' = NoCall
                    /\ ret' = Returned("export_final_excel", FALSE, error_msg, <<>>, <<>>)
                    /\ UNCHANGED <<ncalls, files>>
               ELSE IF disk = "denied"
               THEN /\ call' = NoCall
                    /\ ret' = Returned("export_final_excel", FALSE, "permission_denied", <<>>, <<>>)
                    /\ UNCHANGED <<ncalls, files>>
               ELSE IF disk = "failing"
               THEN /\ call' = NoCall
                    /\ ret' = Returned("export_final_excel", FALSE, "export_error", <<>>, <<>>)
                    /\ UNCHANGED <<ncalls, files>>
               ELSE /\ files' = {f \in files : f.directory # directory \/ f.filename # filename}
                                    \cup {workbook}
                    /\ call' = NoCall
                    /\ ret' = Returned("export_final_excel", TRUE, directory, filename, <<>>)
                    /\ UNCHANGED ncalls
    /\ UNCHANGED <<excel_file_path, dataframe, original_dataframe, filtered_sheets,
                   current_filter_strategy, gui>>

(***************************************************************************)
(* The calls the model makes.                                              *)
(***************************************************************************)
ColumnLists == {<<>>, <<"Department">>, <<"Department", "City">>,
                <<"Department", "Bonus">>}

Texts == {<<>>, <<" ">>, <<"I","T">>, <<"H","R">>,
          <<"N","e","w"," ","Y","o","r","k">>, <<"Y">>, <<" ","Y">>}

StrategyArgs == {NoStrategy, "exact", "fuzzy"}

\* the texts the condition lists are made of
BatchTexts == {<<"I","T">>, <<"H","R">>, <<"N","e","w"," ","Y","o","r","k">>}

\* the condition lists: every list of at most MaxConds of these texts, the
\* lists that hold an empty or a blank condition, and the two lists at and
\* just above the limit on the number of conditions
ConditionLists ==
    UNION {[1..n -> BatchTexts] : n \in 0..MaxConds}
    \cup {<< <<>> >>, << <<"I","T">>, <<>> >>, << <<" ">>, <<"I","T">> >>}
    \cup {Repeat(<<"I","T">>, max_filter_conditions),
          Repeat(<<"I","T">>, max_filter_conditions + 1)}

\* logic_operator: the handler upper-cases it, and takes anything that is
\* not AND as OR
LogicOperators == {<<"A","n","d">>, <<"O","R">>}

LoadCalls == {[NoCall EXCEPT !.op = "load_excel", !.path = p] : p \in Paths}
StrategyCalls ==
    {[NoCall EXCEPT !.op = "set_filter_strategy", !.strategy = s] :
        s \in StrategyNames \cup {"fuzzy"}}
FilterCalls ==
    {[NoCall EXCEPT !.op = "filter_data", !.columns = c, !.text = t, !.strategy = s] :
        c \in ColumnLists, t \in Texts, s \in StrategyArgs}
BatchCalls ==
    {[NoCall EXCEPT !.op = "filter_data_batch", !.columns = c, !.values = v, !.logic = l] :
        c \in ColumnLists, v \in ConditionLists, l \in LogicOperators}
ResetCalls == {[NoCall EXCEPT !.op = "reset_data"]}
ClearCalls ==
    {[NoCall EXCEPT !.op = "clear_filtered_data", !.sheet_name = n] :
        n \in {NoSheet, <<"Z">>} \cup Range(get_all_filtered_sheets)}

SaveDirectories == {NoDirectory, "out", "ro", "nodir"}
Filenames == {NoFilename, <<"r">>}
ExportCalls ==
    {[NoCall EXCEPT !.op = "export_final_excel", !.save_directory = d, !.filename = f] :
        d \in SaveDirectories, f \in Filenames}

\* the calls whose arguments do not depend on the handler's state
FixedCalls ==
    LoadCalls \cup StrategyCalls \cup FilterCalls \cup BatchCalls \cup ResetCalls
    \cup ExportCalls

\* the caller makes the call c: the handler runs one call at a time
Invoke(c) ==
    /\ call' = c
    /\ ret' = NoRet
    /\ ncalls' = ncalls + 1
    /\ UNCHANGED <<excel_file_path, dataframe, original_dataframe, filtered_sheets,
                   current_filter_strategy, files, gui>>

CallHandler ==
    /\ call = NoCall
    /\ ncalls < MaxCalls
    /\ \/ \E c \in FixedCalls : Invoke(c)
       \/ \E c \in ClearCalls : Invoke(c)

Next ==
    \/ CallHandler
    \/ load_excel
    \/ set_filter_strategy
    \/ filter_data
    \/ filter_data_batch
    \/ reset_data
    \/ clear_filtered_data
    \/ export_final_excel

Spec == Init /\ [][Next]_vars

(***************************************************************************)
(* One working session followed further: few different calls, more of      *)
(* them in a row than Spec follows.                                        *)
(***************************************************************************)
\* the number of calls of a session
MaxSessionCalls == 5

SessionCalls ==
    {[NoCall EXCEPT !.op = "load_excel", !.path = "a.xlsx"],
     [NoCall EXCEPT !.op = "filter_data", !.columns = <<"Department">>,
                    !.text = <<"I","T">>, !.strategy = NoStrategy],
     [NoCall EXCEPT !.op = "filter_data", !.columns = <<"Department">>,
                    !.text = <<"H","R">>, !.strategy = NoStrategy],
     [NoCall EXCEPT !.op = "reset_data"],
     [NoCall EXCEPT !.op = "clear_filtered_data", !.sheet_name = NoSheet],
     [NoCall EXCEPT !.op = "export_final_excel", !.save_directory = NoDirectory,
                    !.filename = NoFilename],
     [NoCall EXCEPT !.op = "filter_data", !.columns = <<"Department", "Bonus">>,
                    !.text = <<"I","T">>, !.strategy = NoStrategy],
     [NoCall EXCEPT !.op = "filter_data_batch", !.columns = <<"Bonus", "Department">>,
                    !.values = << <<"H","R">> >>, !.logic = <<"A","N","D">>],
     [NoCall EXCEPT !.op = "filter_data_batch", !.columns = <<"City">>,
                    !.values = << <<" ">> >>, !.logic = <<"O","R">>],
     [NoCall EXCEPT !.op = "filter_data", !.columns = <<"City">>,
                    !.text = <<"n">>, !.strategy = NoStrategy],
     [NoCall EXCEPT !.op = "filter_data", !.columns = <<"Department">>,
                    !.text = <<"N">>, !.strategy = NoStrategy]}
    \cup {[NoCall EXCEPT !.op = "apply_filter", !.strategy = n, !.df = TableA,
                         !.columns = cols, !.text = <<"I","T">>] :
             n \in StrategyNames,
             cols \in {<<"Department", "Bonus">>, <<"Bonus">>}}

CallInSession ==
    /\ call = NoCall
    /\ ncalls < MaxSessionCalls
    /\ \E c \in SessionCalls : Invoke(c)

\* strategy.apply_filter(df, columns, condition) called and returning its
\* mask; the return also tells the strategy and the condition
Strategy_apply_filter ==
    /\ call.op = "apply_filter"
    /\ Return([Returned("apply_filter", TRUE, call.strategy, call.text, <<>>)
                 EXCEPT !.mask = ApplyFilter(call.strategy, call.df, call.columns,
                                             call.text)])
    /\ UNCHANGED <<excel_file_path, dataframe, original_dataframe, filtered_sheets,
                   current_filter_strategy>>

SessionNext ==
    \/ CallInSession
    \/ load_excel
    \/ filter_data
    \/ filter_data_batch
    \/ reset_data
    \/ clear_filtered_data
    \/ export_final_excel
    \/ Strategy_apply_filter

SessionSpec == Init /\ [][SessionNext]_vars

(***************************************************************************)
(* The validators and the strategies called on their own: they are static  *)
(* methods and plain objects, and any text can be given to them.           *)
(***************************************************************************)
\* the longest of the short names, and the characters names are made of
MaxNameLen == 2
NameChars == {"a", " ", "/", "[", "<", "."}

\* every name of at most n of these characters
RECURSIVE NamesUpTo(_)
NamesUpTo(n) ==
    IF n = 0 THEN {<<>>}
    ELSE NamesUpTo(n - 1) \cup
         {Append(x, c) : x \in {y \in NamesUpTo(n - 1) : Len(y) = n - 1}, c \in NameChars}

\* names around a length limit: a first and a last character, or none,
\* around a run of "a"
NamesAround(limit) ==
    {h \o Repeat("a", n) \o t :
        h \in NamesUpTo(1), t \in NamesUpTo(1), n \in (limit - 4)..(limit + 2)}

SheetNameInputs ==
    NamesUpTo(MaxNameLen) \cup {<<c>> : c \in SheetInvalidChars}
    \cup NamesAround(export_sheet_name_max_length)
FilenameInputs ==
    NamesUpTo(MaxNameLen) \cup {<<c>> : c \in FilenameInvalidChars}
    \cup NamesAround(export_filename_max_length)

\* a table whose cells hold parentheses, a dot and a missing value
TableP ==
    DataFrame(<<"Department", "City">>,
      << Row(0, Cell(<<"I","T"," ","(","o","p","s",")">>), Cell(<<"O","s","l","o">>)),
         Row(1, Cell(<<"H","R">>), Cell(<<"R","i","o"," ","(","B","R">>)),
         Row(2, NaN, Cell(<<"a",".","b",")">>)),
         Row(3, Cell(<<"o","p","s">>), Cell(<<"a","x","b">>)) >>)

\* patterns that compile, and patterns with an unbalanced parenthesis
PatternTexts ==
    { <<"I","T">>, <<"o","p","s">>, <<"a",".","b">>, <<"(","o","p","s",")">>,
      <<"n","a","n">>, <<"(">>, <<")">>, <<"(","o","p","s">>, <<"(","b","r">>,
      <<"b",")">>, <<"o","p","s",")">>, <<".","b",")">>, <<"(","h","r">> }

\* a table whose cells differ in case and surrounding whitespace, with
\* missing values and with the texts a missing value is printed as
TableW ==
    DataFrame(<<"Department", "City">>,
      << Row(0, Cell(<<" ","A","l","i","c","e"," ">>), Cell(<<"a","l","i","c","e">>)),
         Row(1, Cell(<<"A","l","i","c","e"," ","B">>), Cell(<<"O","s","l","o">>)),
         Row(2, NaN, Cell(<<"A","L","I","C","E">>)),
         Row(3, Cell(<<"B","o","b">>), NaN),
         Row(4, Cell(<<"n","a","n">>), Cell(<<"B","a","n","a","n","a">>)),
         Row(5, NaN, NaN) >>)

\* conditions that differ in case and surrounding whitespace, parts of cells,
\* and the texts a missing value is printed as
WordTexts ==
    { <<" ","A","l","i","c","e"," ">>, <<"a","l","i","c","e">>,
      <<"A","l","i","c","e">>, <<"A","l","i">>, <<"b","o","b"," ">>,
      <<"n","a","n">>, <<"n","a">>, <<"N","a","N">> }

StrategyCallsOnTables ==
    {[NoCall EXCEPT !.op = "apply_filter", !.strategy = n, !.df = t,
                    !.columns = cols, !.text = x] :
        n \in StrategyNames, t \in {TableA, TableP, TableW},
        cols \in {<<"Department">>, <<"City">>, <<"Department", "City">>,
                  <<"Salary", "City">>},
        x \in PatternTexts \cup WordTexts}

ValidatorCalls ==
    {[NoCall EXCEPT !.op = "sanitize_sheet_name", !.text = x] : x \in SheetNameInputs}
    \cup {[NoCall EXCEPT !.op = "sanitize_filename", !.text = x] : x \in FilenameInputs}
    \cup StrategyCallsOnTables

\* a caller calls a validator; the handler is not involved
CallValidator ==
    /\ call = NoCall
    /\ \E c \in ValidatorCalls : call' = c
    /\ ret' = NoRet
    /\ UNCHANGED <<excel_file_path, dataframe, original_dataframe, filtered_sheets,
                   current_filter_strategy, ncalls, files, gui>>

\* DataValidator.sanitize_sheet_name(name) called and returning
DataValidator_sanitize_sheet_name ==
    /\ call.op = "sanitize_sheet_name"
    /\ Return(Returned("sanitize_sheet_name", TRUE, "", sanitize_sheet_name(call.text), <<>>))
    /\ UNCHANGED <<excel_file_path, dataframe, original_dataframe, filtered_sheets,
                   current_filter_strategy>>

\* DataValidator.sanitize_filename(name) called and returning
DataValidator_sanitize_filename ==
    /\ call.op = "sanitize_filename"
    /\ Return(Returned("sanitize_filename", TRUE, "", sanitize_filename(call.text), <<>>))
    /\ UNCHANGED <<excel_file_path, dataframe, original_dataframe, filtered_sheets,
                   current_filter_strategy>>

ValidatorNext ==
    \/ CallValidator
    \/ DataValidator_sanitize_sheet_name
    \/ DataValidator_sanitize_filename
    \/ Strategy_apply_filter

ValidatorSpec == Init /\ [][ValidatorNext]_vars

(***************************************************************************)
(* The windows.  A slot that calls the handler makes the call, the handler *)
(* runs it, and the slot goes on with what the call returned.              *)
(***************************************************************************)
\* MainWindow._update_ui_state
_update_ui_state(w) ==
    LET has_data == ~dataframe.isNone
        has_filtered_data == Len(filtered_sheets) > 0
        has_original_data == ~original_dataframe.isNone
    IN [w EXCEPT !.compare_button = has_data,
                 !.reset_button = has_original_data /\ has_filtered_data,
                 !.export_button = has_filtered_data]

\* MainWindow._update_filtered_list
_update_filtered_list(w) == [w EXCEPT !.filtered_list = get_all_filtered_sheets]

\* how many calls the windows make of the handler
MaxGuiCalls == 4

\* a slot calls the handler and waits for it
SlotCalls(name, c) ==
    /\ call = NoCall
    /\ slot = ""
    /\ ncalls < MaxGuiCalls
    /\ call' = c
    /\ ret' = NoRet
    /\ slot' = name
    /\ ncalls' = ncalls + 1
    /\ UNCHANGED <<excel_file_path, dataframe, original_dataframe, filtered_sheets,
                   current_filter_strategy, files, main_window, comparison_dialog>>

\* the handler has returned to the slot that waits for it
SlotResumes(name) ==
    /\ slot = name
    /\ call = NoCall
    /\ slot' = ""
    /\ UNCHANGED <<excel_file_path, dataframe, original_dataframe, filtered_sheets,
                   current_filter_strategy, call, ret, ncalls, files>>

\* the files the user picks in the file dialog
PickedFiles == {"a.xlsx", "empty.xlsx"}

\* MainWindow.import_excel, up to its call of load_excel
MainWindow_import_excel ==
    /\ ~comparison_dialog.open
    /\ \E file_path \in PickedFiles :
          SlotCalls("import_excel", [NoCall EXCEPT !.op = "load_excel", !.path = file_path])

\* MainWindow.import_excel, after load_excel
MainWindow_import_excel_returned ==
    /\ SlotResumes("import_excel")
    /\ main_window' = IF ret.ok
                      THEN _update_ui_state([main_window EXCEPT
                                                !.columns_list = get_column_names])
                      ELSE main_window
    /\ UNCHANGED comparison_dialog

\* MainWindow.start_comparison, up to dialog.exec(): the dialog opens on the
\* columns selected in the list
MainWindow_start_comparison ==
    /\ ~comparison_dialog.open
    /\ slot = ""
    /\ call = NoCall
    /\ main_window.compare_button
    /\ \E selected_columns \in {<<"Department">>, <<"City">>} :
          /\ Range(selected_columns) \subseteq Range(main_window.columns_list)
          /\ comparison_dialog' =
                [open |-> TRUE, selected_columns |-> selected_columns,
                 strategy |-> "contains",
                 continue_button |-> FALSE, finish_button |-> FALSE]
    /\ UNCHANGED <<excel_file_path, dataframe, original_dataframe, filtered_sheets,
                   current_filter_strategy, call, ret, ncalls, files, main_window, slot>>

\* the texts typed into the dialog's input line
TypedTexts == {<<"I","T">>, <<"H","R">>, <<"Y">>}

\* ComparisonDialog.filter_data, up to its call of the handler
ComparisonDialog_filter_data ==
    /\ comparison_dialog.open
    /\ \E typed \in TypedTexts :
          LET filter_text == Strip(typed)
          IN /\ filter_text # <<>>
             /\ SlotCalls("filter_data",
                          [NoCall EXCEPT !.op = "filter_data",
                                         !.columns = comparison_dialog.selected_columns,
                                         !.text = filter_text,
                                         !.strategy = comparison_dialog.strategy])

\* ComparisonDialog._reset_filter_state
_reset_filter_state(d) == [d EXCEPT !.continue_button = TRUE, !.finish_button = TRUE]

\* ComparisonDialog.filter_data, after the handler
ComparisonDialog_filter_data_returned ==
    /\ SlotResumes("filter_data")
    /\ comparison_dialog' = IF ret.ok THEN _reset_filter_state(comparison_dialog)
                            ELSE comparison_dialog
    /\ UNCHANGED main_window

\* ComparisonDialog.batch_filter_data, up to its call of the handler: the
\* text is split at the commas, and Yes or No chooses the logic
ComparisonDialog_batch_filter_data ==
    /\ comparison_dialog.open
    /\ \E typed \in {<<"I","T",",","H","R">>, <<"I","T",","," ">>},
          logic \in {<<"A","N","D">>, <<"O","R">>} :
          LET parts == Split(Strip(typed), <<",">>)
              filter_values == SelectSeq([i \in 1..Len(parts) |-> Strip(parts[i])],
                                         LAMBDA f : f # <<>>)
          IN /\ Len(filter_values) >= 2
             /\ SlotCalls("batch_filter_data",
                          [NoCall EXCEPT !.op = "filter_data_batch",
                                         !.columns = comparison_dialog.selected_columns,
                                         !.values = filter_values,
                                         !.logic = logic])

\* ComparisonDialog.batch_filter_data, after the handler
ComparisonDialog_batch_filter_data_returned ==
    /\ SlotResumes("batch_filter_data")
    /\ comparison_dialog' = IF ret.ok THEN _reset_filter_state(comparison_dialog)
                            ELSE comparison_dialog
    /\ UNCHANGED main_window

\* ComparisonDialog.continue_comparison
ComparisonDialog_continue_comparison ==
    /\ comparison_dialog.open
    /\ slot = ""
    /\ call = NoCall
    /\ comparison_dialog.continue_button
    /\ comparison_dialog' = [comparison_dialog EXCEPT !.continue_button = FALSE,
                                                      !.finish_button = FALSE]
    /\ UNCHANGED <<excel_file_path, dataframe, original_dataframe, filtered_sheets,
                   current_filter_strategy, call, ret, ncalls, files, main_window, slot>>

\* the Finish button: QDialog.accept, dialog.exec() returns true and
\* start_comparison brings the main window up to date
ComparisonDialog_accept ==
    /\ comparison_dialog.open
    /\ slot = ""
    /\ call = NoCall
    /\ comparison_dialog.finish_button
    /\ comparison_dialog' = NoDialog
    /\ main_window' = _update_ui_state(_update_filtered_list(main_window))
    /\ UNCHANGED <<excel_file_path, dataframe, original_dataframe, filtered_sheets,
                   current_filter_strategy, call, ret, ncalls, files, slot>>

\* the dialog is closed by its title bar or by Escape: QDialog.reject,
\* dialog.exec() returns false and start_comparison does nothing more
ComparisonDialog_reject ==
    /\ comparison_dialog.open
    /\ slot = ""
    /\ call = NoCall
    /\ comparison_dialog' = NoDialog
    /\ UNCHANGED <<excel_file_path, dataframe, original_dataframe, filtered_sheets,
                   current_filter_strategy, call, ret, ncalls, files, main_window, slot>>

\* MainWindow.reset_data, the user answering Yes, up to the handler's call
MainWindow_reset_data ==
    /\ ~comparison_dialog.open
    /\ main_window.reset_button
    /\ ~original_dataframe.isNone
    /\ SlotCalls("reset_data", [NoCall EXCEPT !.op = "reset_data"])

\* MainWindow.reset_data, after the handler
MainWindow_reset_data_returned ==
    /\ SlotResumes("reset_data")
    /\ main_window' = IF ret.ok
                      THEN _update_ui_state(_update_filtered_list(main_window))
                      ELSE main_window
    /\ UNCHANGED comparison_dialog

\* MainWindow.export_results, up to the handler's call: the directory dialog
\* gives a directory, or nothing when it is cancelled
MainWindow_export_results ==
    /\ ~comparison_dialog.open
    /\ main_window.export_button
    /\ \E save_directory \in {"", "out"} :
          SlotCalls("export_results",
                    [NoCall EXCEPT !.op = "export_final_excel",
                                   !.save_directory = IF save_directory # ""
                                                      THEN save_directory
                                                      ELSE NoDirectory,
                                   !.filename = NoFilename])

\* MainWindow.export_results, after the handler: a message box
MainWindow_export_results_returned ==
    /\ SlotResumes("export_results")
    /\ UNCHANGED <<main_window, comparison_dialog>>

GuiNext ==
    \/ MainWindow_import_excel
    \/ MainWindow_import_excel_returned
    \/ MainWindow_start_comparison
    \/ ComparisonDialog_filter_data
    \/ ComparisonDialog_filter_data_returned
    \/ ComparisonDialog_batch_filter_data
    \/ ComparisonDialog_batch_filter_data_returned
    \/ ComparisonDialog_continue_comparison
    \/ ComparisonDialog_accept
    \/ ComparisonDialog_reject
    \/ MainWindow_reset_data
    \/ MainWindow_reset_data_returned
    \/ MainWindow_export_results
    \/ MainWindow_export_results_returned
    \/ load_excel
    \/ filter_data
    \/ filter_data_batch
    \/ reset_data
    \/ export_final_excel

GuiSpec == Init /\ [][GuiNext]_vars

(***************************************************************************)
(* Vocabulary of the properties.                                           *)
(***************************************************************************)
IT == <<"I","T">>
HR == <<"H","R">>
NewYork == <<"N","e","w"," ","Y","o","r","k">>
Finance == <<"F","i","n","a","n","c","e">>

\* the original positions of a sequence of rows, in order, and as a set
IdsOf(rows) == [i \in 1..Len(rows) |-> rows[i].id]
IdSet(rows) == {rows[i].id : i \in 1..Len(rows)}

\* the handler is running an extraction
Extracting == call.op \in {"filter_data", "filter_data_batch"}

\* the strategy a filter_data call asks for, and the one a call runs under
AskedStrategy ==
    IF call.strategy \in StrategyNames THEN call.strategy
    ELSE IF call.strategy \in {NoStrategy, ""} THEN current_filter_strategy
    ELSE "contains"
CallStrategy ==
    IF call.op = "filter_data" THEN AskedStrategy ELSE current_filter_strategy

\* one cell's text matches one condition under a strategy
CellMatches(strategy, text, condition) ==
    CASE strategy = "contains" -> Contains(Lower(text), Lower(condition))
      [] strategy = "exact"    -> Lower(Strip(text)) = Lower(Strip(condition))
      [] strategy = "regex"    -> IF RegexCompiles(condition)
                                  THEN RegexSearch(text, condition)
                                  ELSE Contains(Lower(text), Lower(condition))

\* at least one selected column of the row matches the condition
RowSatisfies(row, condition) ==
    \E k \in 1..Len(call.columns) :
        CellMatches(CallStrategy, AsStr(row.cells[call.columns[k]]), condition)

\* the conditions of the call, and whether the call joins them with AND
CallConditions == IF call.op = "filter_data" THEN <<call.text>> ELSE call.values
JoinsWithAnd == call.op = "filter_data" \/ Upper(call.logic) = <<"A","N","D">>

\* the row is one the call is to extract
RowWanted(row) ==
    IF JoinsWithAnd
    THEN \A c \in 1..Len(CallConditions) : RowSatisfies(row, CallConditions[c])
    ELSE \E c \in 1..Len(CallConditions) : RowSatisfies(row, CallConditions[c])

\* the pool is loaded and every selected column is one of its columns
ColumnsAccepted ==
    /\ ~dataframe.isNone
    /\ call.columns # <<>>
    /\ \A k \in 1..Len(call.columns) : call.columns[k] \in Range(dataframe.columns)

\* the call passes every check the handler makes before it builds the mask
CallAccepted ==
    /\ Extracting
    /\ ColumnsAccepted
    /\ call.op = "filter_data" =>
          /\ Strip(call.text) # <<>>
          /\ Len(call.text) <= filter_text_max_length
    /\ call.op = "filter_data_batch" =>
          /\ call.values # <<>>
          /\ Len(call.values) <= max_filter_conditions

\* part holds the rows with a true entry of wanted and rest the others, each
\* in the order of rows
IsSplit(rows, wanted, part, rest) ==
    LET n == Len(rows)
        RankT(i) == Cardinality({j \in 1..i : wanted[j]})
        RankF(i) == Cardinality({j \in 1..i : ~wanted[j]})
    IN /\ Len(part) = RankT(n)
       /\ Len(rest) = RankF(n)
       /\ \A i \in 1..n : IF wanted[i] THEN part[RankT(i)] = rows[i]
                          ELSE rest[RankF(i)] = rows[i]

\* the partition stored under a name (the name is a key of the mapping)
SheetNamed(sheets, name) ==
    sheets[CHOOSE i \in 1..Len(sheets) : sheets[i].name = name].df

\* current_rows + total_filtered_rows == original_rows
Conserved ==
    get_data_summary.current_rows + get_data_summary.total_filtered_rows
        = get_data_summary.original_rows

StoreUnchanged ==
    /\ dataframe' = dataframe
    /\ filtered_sheets' = filtered_sheets
    /\ original_dataframe' = original_dataframe

(***************************************************************************)
(* C1. Row-count conservation: an extraction (filter_data or               *)
(* filter_data_batch, successful or not) that starts with                  *)
(* current_rows + total_filtered_rows == original_rows ends with it; with  *)
(* the equality that holds after the first successful load this is the     *)
(* claim for every sequence of extractions.                                *)
(***************************************************************************)
C1_RowConservation ==
    [][(Extracting /\ ~original_dataframe.isNone /\ Conserved) => Conserved']_vars

(***************************************************************************)
(* C2. Disjointness: no original position is held by two partitions, and   *)
(* none is held by a partition and by the pool.                            *)
(***************************************************************************)
C2_Disjoint ==
    /\ \A i, j \in 1..Len(filtered_sheets) :
          i # j => IdSet(filtered_sheets[i].df.rows) \cap IdSet(filtered_sheets[j].df.rows) = {}
    /\ \A i \in 1..Len(filtered_sheets) :
          IdSet(filtered_sheets[i].df.rows) \cap IdSet(dataframe.rows) = {}

(***************************************************************************)
(* C3. An extraction whose conditions select no row of the pool returns    *)
(* (False, message) and leaves the pool, the mapping and every field of    *)
(* get_data_summary() as they were.                                        *)
(***************************************************************************)
C3_EmptyMatchNoOp ==
    [][(CallAccepted /\ \A i \in 1..Len(dataframe.rows) : ~RowWanted(dataframe.rows[i]))
        => /\ ret'.op = call.op
           /\ ~ret'.ok
           /\ StoreUnchanged
           /\ get_data_summary' = get_data_summary]_vars

C3_Witness ==
    /\ ret.op \in {"filter_data", "filter_data_batch"}
    /\ ~ret.ok
    /\ ret.msg = "no_match"
    /\ filtered_sheets # <<>>
    /\ dataframe.rows # <<>>

(***************************************************************************)
(* C4. A successful filter_data splits the pool by its mask: the returned  *)
(* rows are the stored partition and are exactly the pool rows the mask    *)
(* selects, the new pool is exactly the others, both in the pool's order;  *)
(* on the five-row table, Department and IT give the partition of rows     *)
(* 0, 2, 4 and leave the pool HR, Finance.                                 *)
(***************************************************************************)
C4_SplitByMask ==
    [][(call.op = "filter_data" /\ ret'.ok)
        => /\ IsSplit(dataframe.rows,
                      ApplyFilter(AskedStrategy, dataframe, call.columns, call.text),
                      ret'.rows, dataframe'.rows)
           /\ dataframe'.columns = dataframe.columns
           /\ HasSheet(filtered_sheets', sanitize_sheet_name(call.text))
           /\ SheetNamed(filtered_sheets', sanitize_sheet_name(call.text))
                 = DataFrame(dataframe.columns, ret'.rows)
           /\ (dataframe = TableA /\ call.columns = <<"Department">> /\ call.text = IT)
                 => /\ IdsOf(ret'.rows) = <<0, 2, 4>>
                    /\ IdsOf(dataframe'.rows) = <<1, 3>>]_vars

C4_Witness ==
    /\ ret.op = "filter_data"
    /\ ret.ok
    /\ ret.name = IT
    /\ IdsOf(ret.rows) = <<0, 2, 4>>
    /\ Len(dataframe.rows) = 2
    /\ dataframe.rows[1].cells.Department = Cell(HR)
    /\ dataframe.rows[2].cells.Department = Cell(Finance)

(***************************************************************************)
(* C5. reset_data with a snapshot returns True, makes the pool the table   *)
(* of the last successful import (rows, order and count) and empties the   *)
(* mapping; the result is what reset_data produces from it again, so a     *)
(* second reset_data changes nothing further.                              *)
(***************************************************************************)
\* the tables a load_excel can import
ImportableTables ==
    {FileAt(p).table : p \in {q \in Paths : /\ validate_file_path(q) = ""
                                            /\ FileAt(q).parses
                                            /\ validate_excel_data(FileAt(q).table) = ""}}

C5_ResetRestores ==
    [][(call.op = "reset_data" /\ ~original_dataframe.isNone)
        => /\ ret'.op = "reset_data"
           /\ ret'.ok
           /\ original_dataframe \in ImportableTables
           /\ original_dataframe' = original_dataframe
           /\ dataframe' = original_dataframe
           /\ IdsOf(dataframe'.rows) = [i \in 1..Len(original_dataframe.rows) |-> i - 1]
           /\ filtered_sheets' = <<>>
           /\ (dataframe = original_dataframe /\ filtered_sheets = <<>>)
                 => (dataframe' = dataframe /\ filtered_sheets' = filtered_sheets)]_vars

C5_Witness ==
    /\ ret.op = "reset_data"
    /\ ret.ok
    /\ dataframe = TableA
    /\ original_dataframe = TableA
    /\ filtered_sheets = <<>>
    /\ ncalls >= 3

(***************************************************************************)
(* C6. reset_data without a snapshot (nothing was ever imported) returns   *)
(* False and leaves the pool and the mapping as they were.                 *)
(***************************************************************************)
C6_ResetWithoutSnapshot ==
    [][(call.op = "reset_data" /\ original_dataframe.isNone)
        => /\ ret'.op = "reset_data"
           /\ ~ret'.ok
           /\ StoreUnchanged]_vars

C6_Witness ==
    /\ ret.op = "reset_data"
    /\ ~ret.ok
    /\ original_dataframe.isNone
    /\ dataframe = EmptyTable

(***************************************************************************)
(* C7. filter_data_batch with AND extracts exactly the pool rows that      *)
(* satisfy every condition under the current strategy, in the pool's       *)
(* order, and fails without a change when there is none; Department, City  *)
(* with IT, New York on the five-row table extract row 0 alone.            *)
(***************************************************************************)
\* what a batch call that passes the checks must do, given the rows it is
\* to extract
BatchOutcome(wanted) ==
    IF \A i \in 1..Len(wanted) : ~wanted[i]
    THEN ~ret'.ok /\ StoreUnchanged
    ELSE /\ ret'.ok
         /\ IsSplit(dataframe.rows, wanted, ret'.rows, dataframe'.rows)
         /\ HasSheet(filtered_sheets', ret'.name)
         /\ SheetNamed(filtered_sheets', ret'.name).rows = ret'.rows

C7_BatchAnd ==
    [][(CallAccepted /\ call.op = "filter_data_batch" /\ Upper(call.logic) = <<"A","N","D">>)
        => /\ BatchOutcome([i \in 1..Len(dataframe.rows) |->
                   \A c \in 1..Len(call.values) :
                       RowSatisfies(dataframe.rows[i], call.values[c])])
           /\ (dataframe = TableA /\ call.columns = <<"Department", "City">>
                                  /\ call.values = <<IT, NewYork>>)
                 => IdsOf(ret'.rows) = <<0>>]_vars

C7_Witness ==
    /\ ret.op = "filter_data_batch"
    /\ ret.ok
    /\ ret.name = Join(AndWord, <<IT, NewYork>>)
    /\ IdsOf(ret.rows) = <<0>>
    /\ IdsOf(dataframe.rows) = <<1, 2, 3, 4>>

(***************************************************************************)
(* C8. filter_data_batch with OR extracts exactly the pool rows that       *)
(* satisfy at least one condition under the current strategy, in the       *)
(* pool's order, and fails without a change when there is none; Department *)
(* with IT, HR on the five-row table extracts four rows.                   *)
(***************************************************************************)
C8_BatchOr ==
    [][(CallAccepted /\ call.op = "filter_data_batch" /\ Upper(call.logic) # <<"A","N","D">>)
        => /\ BatchOutcome([i \in 1..Len(dataframe.rows) |->
                   \E c \in 1..Len(call.values) :
                       RowSatisfies(dataframe.rows[i], call.values[c])])
           /\ (dataframe = TableA /\ call.columns = <<"Department">>
                                  /\ call.values = <<IT, HR>>)
                 => IdsOf(ret'.rows) = <<0, 1, 2, 4>>]_vars

C8_Witness ==
    /\ ret.op = "filter_data_batch"
    /\ ret.ok
    /\ ret.name = Join(OrWord, <<IT, HR>>)
    /\ Len(ret.rows) = 4
    /\ IdsOf(dataframe.rows) = <<3>>

(***************************************************************************)
(* C9. filter_data_batch returns (False, message) and changes nothing when *)
(* the condition list is empty, the column list is empty or the list is    *)
(* longer than max_filter_conditions; a list of exactly                    *)
(* max_filter_conditions conditions is matched like any other.             *)
(***************************************************************************)
C9_BatchRejects ==
    [][(call.op = "filter_data_batch")
        => /\ (call.values = <<>> \/ call.columns = <<>>
                  \/ Len(call.values) > max_filter_conditions)
                 => (ret'.op = "filter_data_batch" /\ ~ret'.ok /\ StoreUnchanged)
           /\ (ColumnsAccepted /\ Len(call.values) = max_filter_conditions)
                 => (ret'.ok <=> \E i \in 1..Len(dataframe.rows) :
                                     RowWanted(dataframe.rows[i]))]_vars

C9_Witness ==
    /\ ret.op = "filter_data_batch"
    /\ ~ret.ok
    /\ ret.msg = "too_many_conditions"
    /\ ~dataframe.isNone
    /\ filtered_sheets # <<>>

\* a list of exactly max_filter_conditions conditions has been extracted
C9_AtLimitReached ==
    /\ ret.op = "filter_data_batch"
    /\ ret.ok
    /\ ret.name = sanitize_sheet_name(Join(AndWord, Repeat(IT, max_filter_conditions)))

(***************************************************************************)
(* C10. An extraction with an empty or blank filter text (filter_data),    *)
(* or with an empty or blank condition in the list (filter_data_batch),    *)
(* returns (False, message) and leaves the pool and the mapping as they    *)
(* were.                                                                   *)
(***************************************************************************)
BlankText(t) == Strip(t) = <<>>

C10_BlankTextRejected ==
    [][(\/ call.op = "filter_data" /\ BlankText(call.text)
        \/ call.op = "filter_data_batch"
              /\ \E c \in 1..Len(call.values) : BlankText(call.values[c]))
        => (~ret'.ok /\ StoreUnchanged)]_vars

(***************************************************************************)
(* C11. When a successful extraction produces a sanitized name that is     *)
(* already a key of the mapping, the mapping afterwards holds the newly    *)
(* extracted rows under that key, has as many partitions as before, and    *)
(* the rows the key held before are in neither the pool nor any partition. *)
(***************************************************************************)
\* the name the call builds from its conditions, and the key it stores under
CallConditionName ==
    IF call.op = "filter_data" THEN call.text
    ELSE IF Upper(call.logic) = <<"A","N","D">> THEN Join(AndWord, call.values)
    ELSE Join(OrWord, call.values)
CallSheetName == sanitize_sheet_name(CallConditionName)

\* no row of rows is in the pool or in a partition of the next state
GoneFromStore(rows) ==
    \A i \in 1..Len(rows) :
        /\ rows[i].id \notin IdSet(dataframe'.rows)
        /\ \A j \in 1..Len(filtered_sheets') :
              rows[i].id \notin IdSet(filtered_sheets'[j].df.rows)

C11_LastWriteWins ==
    [][(Extracting /\ ret'.ok /\ HasSheet(filtered_sheets, CallSheetName))
        => /\ HasSheet(filtered_sheets', CallSheetName)
           /\ SheetNamed(filtered_sheets', CallSheetName).rows = ret'.rows
           /\ Len(filtered_sheets') = Len(filtered_sheets)
           /\ GoneFromStore(SheetNamed(filtered_sheets, CallSheetName).rows)]_vars

(***************************************************************************)
(* C12. As claimed: a successful filter_data_batch stores its partition    *)
(* under the conditions in input order, with their exact text, joined by   *)
(* the AND word or the OR word.                                            *)
(***************************************************************************)
C12_StoredUnderJoinedName ==
    [][(call.op = "filter_data_batch" /\ ret'.ok)
        => /\ HasSheet(filtered_sheets', CallConditionName)
           /\ SheetNamed(filtered_sheets', CallConditionName).rows = ret'.rows]_vars

(***************************************************************************)
(* C12, amended. A successful filter_data_batch stores its partition under *)
(* sanitize_sheet_name of the joined name; the key is the joined name, and *)
(* splits back into the list of conditions, when the joined name is not    *)
(* empty, has at most 31 characters, none of / \ ? * [ ] : and no          *)
(* whitespace at either end.  IT, HR with OR are stored under "IT HUO HR". *)
(***************************************************************************)
PlainSheetName(name) ==
    /\ name # <<>>
    /\ Len(name) <= 31
    /\ \A i \in 1..Len(name) : name[i] \notin {"/", "\\", "?", "*", "[", "]", ":"}
    /\ name[1] \notin {" ", "\t", "\n"}
    /\ name[Len(name)] \notin {" ", "\t", "\n"}

C12_StoredUnderSanitizedName ==
    [][(call.op = "filter_data_batch" /\ ret'.ok)
        => LET word == IF Upper(call.logic) = <<"A","N","D">>
                       THEN <<" ", "YU", " ">> ELSE <<" ", "HUO", " ">>
               stored == {i \in 1..Len(filtered_sheets') :
                             filtered_sheets'[i].df.rows = ret'.rows}
           IN /\ HasSheet(filtered_sheets', CallSheetName)
              /\ SheetNamed(filtered_sheets', CallSheetName).rows = ret'.rows
              /\ Len(CallSheetName) <= 31
              /\ PlainSheetName(CallConditionName)
                    => /\ HasSheet(filtered_sheets', CallConditionName)
                       /\ SheetNamed(filtered_sheets', CallConditionName).rows = ret'.rows
                       /\ Split(CallConditionName, word) = call.values
              /\ (call.values = <<IT, HR>> /\ word = <<" ", "HUO", " ">>)
                    => \E i \in stored : filtered_sheets'[i].name =
                           <<"I", "T", " ", "HUO", " ", "H", "R">>
              /\ (call.values = <<IT, NewYork>> /\ word = <<" ", "YU", " ">>)
                    => \E i \in stored : filtered_sheets'[i].name =
                           <<"I", "T", " ", "YU", " ", "N", "e", "w", " ", "Y", "o", "r", "k">>]_vars

\* a partition made from fifty conditions is stored under a cut name
C12_Witness ==
    /\ ret.op = "filter_data_batch"
    /\ ret.ok
    /\ \E i \in 1..Len(filtered_sheets) :
          /\ filtered_sheets[i].df.rows = ret.rows
          /\ Len(filtered_sheets[i].name) = 31
          /\ SubSeq(filtered_sheets[i].name, 29, 31) = <<".", ".", ".">>

(***************************************************************************)
(* C13. sanitize is idempotent: what sanitize_sheet_name returns is mapped *)
(* to itself by sanitize_sheet_name, and likewise for sanitize_filename,   *)
(* for every input.                                                        *)
(***************************************************************************)
C13_SanitizeIdempotent ==
    [][/\ call.op = "sanitize_sheet_name" => sanitize_sheet_name(ret'.name) = ret'.name
       /\ call.op = "sanitize_filename" => sanitize_filename(ret'.name) = ret'.name]_vars

(***************************************************************************)
(* C14. sanitize never returns an empty string: an empty or all-whitespace *)
(* input gives "Sheet1" (sheet names) or "export" (file names), and every  *)
(* other input gives a result that is not empty.                           *)
(***************************************************************************)
AllWhitespace(t) == \A i \in 1..Len(t) : t[i] \in {" ", "\t", "\n"}

C14_SanitizeNeverEmpty ==
    [][/\ call.op \in {"sanitize_sheet_name", "sanitize_filename"} => ret'.name # <<>>
       /\ (call.op = "sanitize_sheet_name" /\ AllWhitespace(call.text))
             => ret'.name = <<"S","h","e","e","t","1">>
       /\ (call.op = "sanitize_filename" /\ AllWhitespace(call.text))
             => ret'.name = <<"e","x","p","o","r","t">>]_vars

CallIllegal ==
    IF call.op = "sanitize_sheet_name" THEN {"/", "\\", "?", "*", "[", "]", ":"}
    ELSE {"/", "\\", ":", "*", "?", "\"", "<", ">", "|"}
CallMaxLength == IF call.op = "sanitize_sheet_name" THEN 31 ELSE 200

\* the input, character by character: illegal ones replaced, the others
\* kept, cut with the marker when it is too long
CallReplaced ==
    LET x == call.text
        r == [i \in 1..Len(x) |-> IF x[i] \in CallIllegal THEN "_" ELSE x[i]]
    IN IF Len(x) > CallMaxLength
       THEN SubSeq(r, 1, CallMaxLength - 3) \o <<".", ".", ".">>
       ELSE r

C16_ReplacedAndKept ==
    [][(call.op \in {"sanitize_sheet_name", "sanitize_filename"} /\ ~AllWhitespace(call.text))
        => /\ \A i \in 1..Len(ret'.name) : ret'.name[i] \notin CallIllegal
           /\ ret'.name = CallReplaced]_vars

(***************************************************************************)
(* C16, amended. What the sanitizers return holds none of the illegal      *)
(* characters, and is the input with each illegal character replaced by    *)
(* "_" and every other character before the truncation point kept, less    *)
(* the whitespace at its two ends.                                         *)
(***************************************************************************)
C16_ReplacedKeptAndStripped ==
    [][(call.op \in {"sanitize_sheet_name", "sanitize_filename"} /\ call.text # <<>>)
        => LET body == CallReplaced
               inked == {i \in 1..Len(body) : body[i] \notin {" ", "\t", "\n"}}
               first == CHOOSE i \in inked : \A j \in inked : i <= j
               last == CHOOSE i \in inked : \A j \in inked : j <= i
           IN /\ \A i \in 1..Len(ret'.name) : ret'.name[i] \notin CallIllegal
              /\ ret'.name = IF inked = {} THEN <<>> ELSE SubSeq(body, first, last)]_vars

C16_Witness ==
    /\ ret.op = "sanitize_filename"
    /\ ret.name = <<"_", "_">>

(***************************************************************************)
(* C17. export_final_excel on a store with no partition returns            *)
(* (False, message) and writes no file, whatever happened before (nothing  *)
(* extracted yet, reset_data, all partitions cleared).                     *)
(***************************************************************************)
C17_NothingToExport ==
    [][(call.op = "export_final_excel" /\ filtered_sheets = <<>>)
        => /\ ret'.op = "export_final_excel"
           /\ ~ret'.ok
           /\ files' = files
           /\ StoreUnchanged]_vars

\* an export that failed for want of partitions, after one that succeeded
C17_Witness ==
    /\ ret.op = "export_final_excel"
    /\ ~ret.ok
    /\ ret.msg = "nothing_to_export"
    /\ filtered_sheets = <<>>
    /\ ~dataframe.isNone
    /\ files # {}

(***************************************************************************)
(* C18. _generate_export_filename splits every partition name back into    *)
(* the conditions that produced it: the name an extraction with proper     *)
(* conditions (not blank, no whitespace at the ends) stores its partition  *)
(* under is split into exactly the conditions of that extraction.          *)
(***************************************************************************)
ProperCondition(t) ==
    /\ t # <<>>
    /\ t[1] \notin {" ", "\t", "\n"}
    /\ t[Len(t)] \notin {" ", "\t", "\n"}

C18_SplitsBackIntoConditions ==
    [][(Extracting /\ ret'.ok
          /\ \A c \in 1..Len(CallConditions) : ProperCondition(CallConditions[c]))
        => \E i \in 1..Len(filtered_sheets') :
              /\ filtered_sheets'[i].df.rows = ret'.rows
              /\ SplitBySeparators(<<filtered_sheets'[i].name>>, Separators)
                    = CallConditions]_vars

(***************************************************************************)
(* C19. A successful export_final_excel writes one sheet per partition, in *)
(* the order of the mapping, each with the partition's columns as header   *)
(* and all its rows: as many sheets as partitions, and as many data rows   *)
(* as total_filtered_rows.                                                 *)
(***************************************************************************)
RECURSIVE SumSheetRows(_)
SumSheetRows(sheets) ==
    IF sheets = <<>> THEN 0 ELSE Len(Head(sheets).rows) + SumSheetRows(Tail(sheets))

C19_OneSheetPerPartition ==
    [][(call.op = "export_final_excel" /\ ret'.ok)
        => \E f \in files' :
              /\ f.filename = ret'.name
              /\ f.directory = ret'.msg
              /\ Len(f.sheets) = Len(filtered_sheets)
              /\ Len(f.sheets) = get_data_summary.filtered_sheets_count
              /\ \A i \in 1..Len(filtered_sheets) :
                    /\ f.sheets[i].header = filtered_sheets[i].df.columns
                    /\ f.sheets[i].rows = filtered_sheets[i].df.rows
              /\ SumSheetRows(f.sheets) = get_data_summary.total_filtered_rows]_vars

\* a workbook of two sheets: IT (rows 0, 2, 4), then HR (row 1)
C19_Witness ==
    /\ ret.op = "export_final_excel"
    /\ ret.ok
    /\ \E f \in files :
          /\ f.filename = ret.name
          /\ Len(f.sheets) = 2
          /\ f.sheets[1].title = IT
          /\ IdsOf(f.sheets[1].rows) = <<0, 2, 4>>
          /\ f.sheets[2].title = HR
          /\ IdsOf(f.sheets[2].rows) = <<1>>

(***************************************************************************)
(* C20: RegexFilter.apply_filter given a pattern that is not a valid       *)
(* regular expression (an unbalanced parenthesis) does not raise, and      *)
(* returns the mask that ContainsFilter.apply_filter returns for the same  *)
(* table, columns and condition.                                           *)
(***************************************************************************)
\* patterns re.compile rejects: a parenthesis opened and not closed, or
\* closed and not opened
InvalidPatterns ==
    { <<"(">>, <<")">>, <<"(","o","p","s">>, <<"(","b","r">>, <<"b",")">>,
      <<"o","p","s",")">>, <<".","b",")">>, <<"(","h","r">> }

C20_RegexFallback ==
    [][(call.op = "apply_filter" /\ call.strategy = "regex"
          /\ call.text \in InvalidPatterns)
        => /\ ret'.op = "apply_filter"
           /\ ~ret'.raised
           /\ ret'.mask = ContainsFilter(call.df, call.columns, call.text)]_vars

\* an invalid pattern has selected the rows that contain it as plain text
C20_Witness ==
    /\ ret.op = "apply_filter"
    /\ ret.msg = "regex"
    /\ ret.name = <<"(","o","p","s">>
    /\ ret.mask = <<TRUE, FALSE, FALSE, FALSE>>

(***************************************************************************)
(* C21: ExactMatchFilter selects a row iff the value of one of the         *)
(* selected columns, trimmed and lower-cased, equals the trimmed,          *)
(* lower-cased condition; ' Alice ', 'alice' and 'Alice' select the same   *)
(* rows, and a cell of which the condition is a proper part is not         *)
(* selected.  Stated for the rows whose selected cells all hold a value.   *)
(***************************************************************************)
\* the columns of the call that the table of the call has
CallColumns == {c \in Range(call.columns) : c \in Range(call.df.columns)}

\* every selected cell of the row holds a value
AllPresent(row) == \A c \in CallColumns : ~row.cells[c].na

\* s with the blanks around it removed and its letters lower-cased, written
\* out for the texts of TableW and WordTexts
Trimmed(s) ==
    LET first == CHOOSE i \in 1..(Len(s) + 1) :
                    /\ \A j \in 1..(i - 1) : s[j] = " "
                    /\ i <= Len(s) => s[i] # " "
        last == CHOOSE i \in 0..Len(s) :
                    /\ \A j \in (i + 1)..Len(s) : s[j] = " "
                    /\ i >= 1 => s[i] # " "
    IN Lower(SubSeq(s, first, last))

AliceSpellings ==
    { <<" ","A","l","i","c","e"," ">>, <<"a","l","i","c","e">>,
      <<"A","l","i","c","e">> }

C22_ContainsIgnoresMissing ==
    [][(call.op = "apply_filter" /\ call.strategy = "contains")
        => /\ ret'.op = "apply_filter"
           /\ Len(ret'.mask) = Len(call.df.rows)
           /\ \A i \in 1..Len(call.df.rows) :
                 ret'.mask[i] <=>
                    \E c \in CallColumns :
                       /\ ~call.df.rows[i].cells[c].na
                       /\ Contains(Lower(call.df.rows[i].cells[c].s), Lower(call.text))]_vars

(***************************************************************************)
(* C23: a selected column that the table does not have is skipped without  *)
(* error, so the selection is the one made with the name left out, both    *)
(* when apply_filter is called on a strategy and when the extraction is    *)
(* asked of filter_data or filter_data_batch.                              *)
(***************************************************************************)
\* the mask a strategy call makes from the columns the table has
MaskOfKnownColumns ==
    [i \in 1..Len(call.df.rows) |->
        \E c \in CallColumns :
            CellMatches(call.strategy, AsStr(call.df.rows[i].cells[c]), call.text)]

\* a strategy called with a column the table does not have skips it
DirectCallSkips ==
    (call.op = "apply_filter" /\ call.df = TableA)
        => /\ ret'.op = "apply_filter"
           /\ ~ret'.raised
           /\ ret'.mask = MaskOfKnownColumns

\* the handler is asked to extract with a column the pool does not have
\* beside one it has
AsksUnknownColumn ==
    /\ Extracting
    /\ ~dataframe.isNone
    /\ \E k \in 1..Len(call.columns) : call.columns[k] \notin Range(dataframe.columns)
    /\ \E k \in 1..Len(call.columns) : call.columns[k] \in Range(dataframe.columns)

\* a row of the pool matches the first condition in a column the pool has
SomeRowMatchesKnown ==
    \E i \in 1..Len(dataframe.rows) :
        \E k \in 1..Len(call.columns) :
            /\ call.columns[k] \in Range(dataframe.columns)
            /\ CellMatches(CallStrategy, AsStr(dataframe.rows[i].cells[call.columns[k]]),
                           CallConditions[1])

\* as claimed: the handler extracts what the columns it has select
C23_UnknownColumnSkipped ==
    [][/\ DirectCallSkips
       /\ (AsksUnknownColumn /\ SomeRowMatchesKnown) => ret'.ok]_vars

\* as coded: a strategy skips the column, the handler refuses the call and
\* changes nothing
C23_SkippedByStrategyRefusedByHandler ==
    [][/\ DirectCallSkips
       /\ AsksUnknownColumn
            => /\ ret'.op = call.op
               /\ ~ret'.ok
               /\ ret'.msg = "unknown_columns"
               /\ StoreUnchanged]_vars

\* the handler has refused ['Department', 'Bonus'] on the loaded pool
C23_Witness ==
    /\ ret.op = "filter_data"
    /\ ret.msg = "unknown_columns"
    /\ ~dataframe.isNone
    /\ Len(dataframe.rows) = 5

\* a strategy has skipped 'Bonus' and selected the IT rows
C23_StrategySkipped ==
    /\ ret.op = "apply_filter"
    /\ ret.msg = "contains"
    /\ ret.mask = <<TRUE, FALSE, TRUE, FALSE, TRUE>>

(***************************************************************************)
(* C24: monotonic shrink.  filter_data, filter_data_batch,                 *)
(* clear_filtered_data and export_final_excel never increase the pool's    *)
(* row count; a successful extraction decreases it, by exactly the number  *)
(* of rows of the partition it created; only load_excel and reset_data can *)
(* increase it.                                                            *)
(***************************************************************************)
PoolRows(df) == IF df.isNone THEN 0 ELSE Len(df.rows)

C24_MonotonicShrink ==
    [][/\ call.op \in {"filter_data", "filter_data_batch", "clear_filtered_data",
                       "export_final_excel"}
            => PoolRows(dataframe') <= PoolRows(dataframe)
       /\ (Extracting /\ ret'.ok)
            => /\ PoolRows(dataframe') < PoolRows(dataframe)
               /\ HasSheet(filtered_sheets', ret'.name)
               /\ PoolRows(dataframe) - PoolRows(dataframe')
                     = Len(SheetNamed(filtered_sheets', ret'.name).rows)
       /\ PoolRows(dataframe') > PoolRows(dataframe)
            => call.op \in {"load_excel", "reset_data"}]_vars

\* after two extractions the pool of five rows holds one
C24_Witness ==
    /\ ret.op \in {"filter_data", "filter_data_batch"}
    /\ ret.ok
    /\ Len(filtered_sheets) = 2
    /\ PoolRows(dataframe) = 1
    /\ PoolRows(original_dataframe) = 5

(***************************************************************************)
(* C25: export_final_excel leaves the store alone.  Whether it succeeds or *)
(* fails (no partitions, no source path, invalid export path, permission   *)
(* error, any other write error) it returns a (success, text) result, it   *)
(* does not raise, and the pool, the snapshot and the mapping are as       *)
(* before the call.                                                        *)
(***************************************************************************)
ExportOutcomes ==
    {"nothing_to_export", "no_source_file", "export_dir_missing", "not_writable",
     "file_locked", "empty_path", "permission_denied", "export_error"}

C25_ExportLeavesStore ==
    [][call.op = "export_final_excel"
        => /\ ret'.op = "export_final_excel"
           /\ ~ret'.raised
           /\ ret'.ok \in BOOLEAN
           /\ ~ret'.ok => ret'.msg \in ExportOutcomes
           /\ StoreUnchanged]_vars

\* an export refused for a permission error has left its partition and the
\* pool in place
C25_Witness ==
    /\ ret.op = "export_final_excel"
    /\ ~ret.ok
    /\ ret.msg = "permission_denied"
    /\ Len(filtered_sheets) = 1
    /\ PoolRows(dataframe) + SumRows(filtered_sheets) = 5

(***************************************************************************)
(* C26: after every load_excel that succeeds, the first or a later one,    *)
(* the store is in its initial state for the table read: the pool equals   *)
(* the snapshot and the mapping is empty, so current_rows == original_rows *)
(* and total_filtered_rows == 0.                                           *)
(***************************************************************************)
C26_LoadStartsAfresh ==
    [][(call.op = "load_excel" /\ ret'.ok)
        => /\ ~dataframe'.isNone
           /\ dataframe' = original_dataframe'
           /\ filtered_sheets' = <<>>
           /\ PoolRows(dataframe') = PoolRows(original_dataframe')
           /\ SumRows(filtered_sheets') = 0]_vars

(***************************************************************************)
(* C27: a load_excel that fails (path refused, read error, data refused    *)
(* such as an empty sheet) returns (False, message) and leaves             *)
(* excel_file_path, the pool, the snapshot and the mapping as they were.   *)
(***************************************************************************)
C27_FailedLoadChangesNothing ==
    [][(call.op = "load_excel" /\ ~ret'.ok)
        => /\ ret'.op = "load_excel"
           /\ ret'.msg # ""
           /\ excel_file_path' = excel_file_path
           /\ StoreUnchanged]_vars

(***************************************************************************)
(* C28: every key of filtered_sheets is a text that is not empty and that  *)
(* sanitize_sheet_name maps to itself, so that at export every sheet title *)
(* is its partition's key and different partitions get different titles.   *)
(***************************************************************************)
C28_KeysAreTitles ==
    LET sheets == CreateSheets(filtered_sheets)
    IN /\ \A i \in 1..Len(filtered_sheets) :
             /\ filtered_sheets[i].name # <<>>
             /\ sanitize_sheet_name(filtered_sheets[i].name) = filtered_sheets[i].name
             /\ sheets[i].title = filtered_sheets[i].name
       /\ \A i, j \in 1..Len(sheets) : sheets[i].title = sheets[j].title => i = j

(***************************************************************************)
(* C30: the current filter strategy is always 'contains', 'exact' or       *)
(* 'regex'.  set_filter_strategy with a known name sets it and returns     *)
(* True, with an unknown name returns False and leaves it; filter_data     *)
(* with a strategy argument, known or not (an unknown one counts as        *)
(* 'contains' for that call), never changes it; filter_data_batch uses the *)
(* strategy last set.                                                      *)
(***************************************************************************)
\* the rows of the pool that a condition selects under a strategy, in the
\* selected columns
SelectedUnder(strategy, conditions, all) ==
    [i \in 1..Len(dataframe.rows) |->
        LET hit(c) == \E k \in 1..Len(call.columns) :
                         CellMatches(strategy,
                                     AsStr(dataframe.rows[i].cells[call.columns[k]]),
                                     conditions[c])
        IN IF all THEN \A c \in 1..Len(conditions) : hit(c)
           ELSE \E c \in 1..Len(conditions) : hit(c)]

KnownStrategies == {"contains", "exact", "regex"}

C30_StrategyKept ==
    [][/\ current_filter_strategy \in KnownStrategies
       /\ current_filter_strategy' \in KnownStrategies
       /\ call.op = "set_filter_strategy" =>
             IF call.strategy \in KnownStrategies
             THEN ret'.ok /\ current_filter_strategy' = call.strategy
             ELSE ~ret'.ok /\ current_filter_strategy' = current_filter_strategy
       /\ call.op # "set_filter_strategy" =>
             current_filter_strategy' = current_filter_strategy
       /\ (CallAccepted /\ call.op = "filter_data"
             /\ call.strategy \notin KnownStrategies \cup {NoStrategy, ""}) =>
             BatchOutcome(SelectedUnder("contains", <<call.text>>, TRUE))
       /\ (CallAccepted /\ call.op = "filter_data_batch") =>
             BatchOutcome(SelectedUnder(current_filter_strategy, call.values,
                                        Upper(call.logic) = <<"A","N","D">>))]_vars

\* with 'exact' set, a filter_data call that names an unknown strategy has
\* selected the rows that contain 'Y', which 'exact' would not, and 'exact'
\* is still set
C30_Witness ==
    /\ ret.op = "filter_data"
    /\ ret.ok
    /\ ret.name = <<"Y">>
    /\ Len(ret.rows) = 3
    /\ current_filter_strategy = "exact"

(***************************************************************************)
(* C29: whenever no dialog is open and no handler is running, the main     *)
(* window's export button is enabled iff the store holds a partition, and  *)
(* the list of finished results shows the store's partition names, also    *)
(* after the comparison dialog made extractions and was closed without     *)
(* Finish.                                                                 *)
(***************************************************************************)
C29_WindowShowsStore ==
    (~comparison_dialog.open /\ slot = "" /\ call = NoCall)
        => /\ main_window.export_button <=> (Len(filtered_sheets) > 0)
           /\ main_window.filtered_list =
                 [i \in 1..Len(filtered_sheets) |-> filtered_sheets[i].name]

====
